---- MODULE Spec2Model ----
(***************************************************************************)
(* The sliding-window rate limiter of go-clean-template                    *)
(* (internal/presentation/http/middlewares, rate limit part):              *)
(*   RateLimiter          one client's window counter                      *)
(*   ClientLimiterStore   the registry  clientID -> *RateLimiter           *)
(*   RateLimit            the HTTP middleware                              *)
(*   getClientIP          the client identity of a request                 *)
(*                                                                         *)
(* Time is in whole seconds.  Each request is served by a goroutine; a     *)
(* goroutine's steps are the places where it reads the clock, takes a      *)
(* lock, or works on shared state under a lock it holds.                   *)
(***************************************************************************)
EXTENDS Integers, Sequences, FiniteSets, TLC

(***************************************************************************)
(* Bounds of the model.                                                    *)
(***************************************************************************)
\* the clock advances in steps of TickSeconds, at most MaxTicks times
TickSeconds == 30
MaxTicks == 11
\* rate_limit.requests_per_minute ranges over 0 .. MaxCapacity
\* (0 is what an absent key yields: the field has no default and no validation)
MaxCapacity == 2
\* the goroutines of one run; each serves one request, all concurrently
Procs == {"g1", "g2"}
\* the Allow calls of the sequential caller
SeqMaxCalls == 4
\* the Allow calls of the concurrent callers, all together, and the steps of
\* the clock while they call
ConcMaxCalls == 3
ConcMaxTicks == 4

(***************************************************************************)
(* Program constants.                                                      *)
(***************************************************************************)
\* time.Minute, the window NewClientLimiterStore is given
Window == 60
\* 5*time.Minute, the least time between two cleanups
CleanupInterval == 300
\* http.StatusTooManyRequests
StatusTooManyRequests == 429

NoProc == "none"
\* a nil *RateLimiter
Nil == 0

(***************************************************************************)
(* Strings are sequences of tokens: an IP literal, a port, or a separator. *)
(***************************************************************************)
IP1 == "10.0.0.1"
IP2 == "10.0.0.2"
Port == "4711"

\* net.ParseIP(s) != nil
ParseIPOk(s) == Len(s) = 1 /\ s[1] \in {IP1, IP2}

\* strings.Index(s, c): the first position of c in s (1-based), 0 when absent
Index(s, c) ==
    IF \E i \in 1..Len(s) : s[i] = c
    THEN CHOOSE i \in 1..Len(s) : s[i] = c /\ \A j \in 1..(i - 1) : s[j] # c
    ELSE 0

\* strings.LastIndex(s, c)
LastIndex(s, c) ==
    IF \E i \in 1..Len(s) : s[i] = c
    THEN CHOOSE i \in 1..Len(s) : s[i] = c /\ \A j \in (i + 1)..Len(s) : s[j] # c
    ELSE 0

\* strings.TrimSpace(s)
TrimSpace(s) ==
    LET keep == {i \in 1..Len(s) : s[i] # " "}
    IN  IF keep = {} THEN <<>>
        ELSE LET lo == CHOOSE i \in keep : \A j \in keep : i <= j
                 hi == CHOOSE i \in keep : \A j \in keep : j <= i
             IN  SubSeq(s, lo, hi)

\* net.SplitHostPort(addr): err when there is no colon (missing port) or, there
\* being no brackets, when the host holds a colon itself (too many colons)
SplitHostPort(addr) ==
    LET i == LastIndex(addr, ":")
        host == SubSeq(addr, 1, i - 1)
    IN  IF i = 0 \/ Index(host, ":") # 0
        THEN [err |-> TRUE, host |-> <<>>]
        ELSE [err |-> FALSE, host |-> host]

extractIPFromHeader(headerValue) ==
    IF headerValue = <<>> THEN <<>>
    ELSE LET idx == Index(headerValue, ",")
             first == IF idx # 0 THEN SubSeq(headerValue, 1, idx - 1) ELSE headerValue
             ip == TrimSpace(first)
         IN  IF ParseIPOk(ip) THEN ip ELSE <<>>

\* a request: the three proxy headers (<<>> when absent) and r.RemoteAddr
Request(xff, xri, cf, remote) ==
    [XForwardedFor |-> xff, XRealIP |-> xri, CFConnectingIP |-> cf, RemoteAddr |-> remote]

getClientIP(r) ==
    LET headers == <<r.XForwardedFor, r.XRealIP, r.CFConnectingIP>>
        hits == {i \in 1..3 : extractIPFromHeader(headers[i]) # <<>>}
        hp == SplitHostPort(r.RemoteAddr)
    IN  IF hits # {}
        THEN extractIPFromHeader(headers[CHOOSE i \in hits : \A j \in hits : i <= j])
        ELSE IF ~hp.err /\ ParseIPOk(hp.host) THEN hp.host
        ELSE r.RemoteAddr

\* whether the request carries a usable identity: a header or a peer address
\* that holds a valid IP
Identifiable(r) ==
    \/ \E h \in {r.XForwardedFor, r.XRealIP, r.CFConnectingIP} : extractIPFromHeader(h) # <<>>
    \/ (~SplitHostPort(r.RemoteAddr).err /\ ParseIPOk(SplitHostPort(r.RemoteAddr).host))

\* the requests the model serves: a proxied client, a peer whose address is
\* no host:port (a unix socket), and a request without any address
ReqProxied == Request(<<IP1, ",", " ", IP2>>, <<>>, <<>>, <<IP2, ":", Port>>)
ReqSocket == Request(<<>>, <<>>, <<>>, <<"@">>)
ReqNoAddr == Request(<<>>, <<>>, <<>>, <<>>)
Requests == {ReqProxied, ReqSocket, ReqNoAddr}

(***************************************************************************)
(* RateLimiter: one client's window counter.                               *)
(***************************************************************************)
\* a slip: an entry exactly one window old still counts
After_OrEqual(t, u) == t >= u

\* t.After(u)
After(t, u) == t > u

\* the loop of Allow over rl.requests: the number of leading entries that are
\* not after the cutoff (the loop stops at the first entry that is)
RECURSIVE validIndex(_, _)
validIndex(requests, cutoff) ==
    IF requests = <<>> \/ After(Head(requests), cutoff) THEN 0
    ELSE 1 + validIndex(Tail(requests), cutoff)

\* a slip: nothing is dropped
Pruned_KeepsAll(requests, cutoff) == requests

\* rl.requests = rl.requests[validIndex:]
Pruned(requests, cutoff) ==
    SubSeq(requests, validIndex(requests, cutoff) + 1, Len(requests))

\* a slip: the request at hand is counted before it is admitted
Remaining_CountsCurrent(maxTokens, used) == maxTokens - used - 1

\* remaining := rl.maxTokens - len(rl.requests)
Remaining(maxTokens, used) == maxTokens - used

\* a slip: admits at zero tokens left
HasToken_OrNone(remaining) == remaining >= 0

\* whether Allow admits with this many tokens left
HasToken(remaining) == remaining > 0

\* NewRateLimiter(maxRequests, window); mu is the goroutine holding rl.mu
\* for writing
NewRateLimiter(maxRequests, window) ==
    [requests |-> <<>>, maxTokens |-> maxRequests, window |-> window, mu |-> NoProc]

\* a slip: the request is recorded before it is known to be admitted
Allow_RecordsDenied(rl, now) ==
    LET cutoff == now - rl.window
        kept == Pruned(rl.requests, cutoff)
        remaining == Remaining(rl.maxTokens, Len(kept))
    IN  IF HasToken(remaining)
        THEN [requests |-> Append(kept, now), allowed |-> TRUE,
              remaining |-> remaining - 1, resetTime |-> now + rl.window]
        ELSE [requests |-> Append(kept, now), allowed |-> FALSE, remaining |-> 0,
              resetTime |-> IF Len(kept) > 0 THEN kept[1] + rl.window
                            ELSE now + rl.window]

\* the body of Allow under rl.mu, for the value of now read before:
\* the new rl.requests and the three results
Allow(rl, now) ==
    LET cutoff == now - rl.window
        kept == Pruned(rl.requests, cutoff)
        remaining == Remaining(rl.maxTokens, Len(kept))
    IN  IF HasToken(remaining)
        THEN [requests |-> Append(kept, now), allowed |-> TRUE,
              remaining |-> remaining - 1, resetTime |-> now + rl.window]
        ELSE [requests |-> kept, allowed |-> FALSE, remaining |-> 0,
              resetTime |-> IF Len(kept) > 0 THEN kept[1] + rl.window
                            ELSE now + rl.window]

\* a slip: the age of the last request is not looked at
isInactive_OnlyEmpty(rl, now, window) == Len(rl.requests) = 0

\* the test of cleanupInactiveLimiters on one limiter
isInactive(rl, now, window) ==
    \/ Len(rl.requests) = 0
    \/ (Len(rl.requests) > 0 /\ now - rl.requests[Len(rl.requests)] > window * 2)

(***************************************************************************)
(* strconv.Itoa / strconv.FormatInt(_, 10): the decimal digits.            *)
(***************************************************************************)
Digit(d) == CASE d = 0 -> "0" [] d = 1 -> "1" [] d = 2 -> "2" [] d = 3 -> "3"
              [] d = 4 -> "4" [] d = 5 -> "5" [] d = 6 -> "6" [] d = 7 -> "7"
              [] d = 8 -> "8" [] d = 9 -> "9"

RECURSIVE Digits(_)
Digits(n) == IF n < 10 THEN <<Digit(n)>> ELSE Append(Digits(n \div 10), Digit(n % 10))

Itoa(n) == IF n < 0 THEN <<"-">> \o Digits(-n) ELSE Digits(n)

(***************************************************************************)
(* State.                                                                  *)
(***************************************************************************)
VARIABLES
    clock,            \* time.Now(), in seconds
    rateLimitConfig,  \* config.RateLimitConfig: Enabled, RequestsPerMinute
    heap,             \* the RateLimiter objects ever allocated, by address
    limiters,         \* cls.limiters: clientID -> address
    lastCleanup,      \* cls.lastCleanup
    storeMu,          \* cls.mu: the writer and the readers holding it
    ranging,          \* the keys the range loop of the cleanup has yet to visit
    pc,               \* where each goroutine is in RateLimit's handler
    req,              \* the request a goroutine serves
    limiter,          \* its local variable limiter (an address or Nil)
    now,              \* its local variable now (of Allow or of the cleanup)
    result,           \* allowed, remaining, resetTime as Allow returned them
    resp,             \* what the handler did with w and next
    admitted,         \* history: the admissions of the last window
    observed,         \* history: the calls of the sequential caller
    clientIP,         \* the handler's local variable clientIP
    calls             \* history: the calls of Allow that returned, in lock order

vars == <<clock, rateLimitConfig, heap, limiters, lastCleanup, storeMu, ranging,
          pc, req, limiter, now, result, resp, admitted, observed, clientIP, calls>>

\* a RateLimiter no goroutine and no map entry points to any more
Freed == [requests |-> <<>>, maxTokens |-> 0, window |-> 0, mu |-> NoProc]

NoRequest == Request(<<>>, <<>>, <<>>, <<>>)
NoResult == [allowed |-> FALSE, remaining |-> 0, resetTime |-> 0]
\* nothing written to w, next not called
NoResp == [status |-> 0, code |-> "", message |-> <<>>, headers |-> <<>>,
           next |-> 0, forwarded |-> NoRequest]
\* no call yet.  calls: the calls made; first, last: the instants of the first
\* and of the latest; denied: the reset time of the latest denial since the
\* last admission (-1: none); wasEmpty: the latest call found no timestamps;
\* wasDue: the latest call came at or after the reset time of such a denial
NoObserved == [calls |-> 0, first |-> 0, last |-> 0, denied |-> -1,
               wasEmpty |-> FALSE, wasDue |-> FALSE]

Range(f) == {f[x] : x \in DOMAIN f}

\* the garbage collector: an object is kept while the map or a goroutine
\* points to it
Collect(h, lims, refs) ==
    [a \in DOMAIN h |-> IF a \in Range(lims) \cup Range(refs) THEN h[a] ELSE Freed]

\* the store's fields maxRequests and window, as RateLimit sets them
StoreMaxRequests == rateLimitConfig.RequestsPerMinute
StoreWindow == Window

Init ==
    /\ clock = 0
    /\ rateLimitConfig \in [Enabled : BOOLEAN, RequestsPerMinute : 0..MaxCapacity]
    /\ heap = <<>>
    /\ limiters = <<>>
    /\ lastCleanup = 0
    /\ storeMu = [writer |-> NoProc, readers |-> {}]
    /\ ranging = {}
    /\ pc = [p \in Procs |-> "idle"]
    /\ req = [p \in Procs |-> NoRequest]
    /\ limiter = [p \in Procs |-> Nil]
    /\ now = [p \in Procs |-> 0]
    /\ result = [p \in Procs |-> NoResult]
    /\ resp = [p \in Procs |-> NoResp]
    /\ admitted = <<>>
    /\ observed = NoObserved
    /\ clientIP = [p \in Procs |-> <<>>]
    /\ calls = <<>>

\* time passes, up to the end of the run: when every request is served
Tick ==
    /\ clock + TickSeconds <= MaxTicks * TickSeconds
    /\ \E p \in Procs : pc[p] \notin {"done", "panic"}
    /\ clock' = clock + TickSeconds
    /\ admitted' = SelectSeq(admitted, LAMBDA a : a.at > clock' - Window)
    /\ UNCHANGED <<rateLimitConfig, heap, limiters, lastCleanup, storeMu, ranging,
                   pc, req, limiter, now, result, resp, observed, clientIP, calls>>

(***************************************************************************)
(* RateLimit: the handler, one request per goroutine.                      *)
(***************************************************************************)
Present(k, v) == (k :> v)

\* next.ServeHTTP(w, r) on a response so far
Forwarded(sofar, r) == [sofar EXCEPT !.next = @ + 1, !.forwarded = r]

\* setRateLimitHeaders(w, limit, remaining, resetTime)
setRateLimitHeaders(limit, remaining, resetTime) ==
    Present("X-RateLimit-Limit", Itoa(limit))
    @@ Present("X-RateLimit-Remaining", Itoa(remaining))
    @@ Present("X-RateLimit-Reset", Itoa(resetTime))
    @@ Present("X-RateLimit-Window", Itoa(60))

\* a slip: no lower limit of 1
retryAfter_NoFloor(resetTime, clk) == resetTime - clk

\* int(time.Until(resetTime).Seconds()), at least 1
retryAfter(resetTime, clk) == IF resetTime - clk < 1 THEN 1 ELSE resetTime - clk

\* response.Error(w, 429, "RATE_LIMIT_EXCEEDED", ...) after the headers
Rejected(headers, retry) ==
    [status |-> StatusTooManyRequests, code |-> "RATE_LIMIT_EXCEEDED",
     message |-> <<"Rate limit exceeded. Try again in ">> \o Itoa(retry) \o <<" seconds.">>,
     headers |-> Present("Retry-After", Itoa(retry)) @@ headers,
     next |-> 0, forwarded |-> NoRequest]

\* a slip: no return after the 429, next is called as well
Response_FallsThrough(limit, res, r, clk) ==
    LET headers == setRateLimitHeaders(limit, res.remaining, res.resetTime)
    IN  IF ~res.allowed
        THEN Forwarded(Rejected(headers, retryAfter(res.resetTime, clk)), r)
        ELSE Forwarded([NoResp EXCEPT !.headers = headers], r)

\* the handler from the call of setRateLimitHeaders on
Response(limit, res, r, clk) ==
    LET headers == setRateLimitHeaders(limit, res.remaining, res.resetTime)
    IN  IF ~res.allowed
        THEN Rejected(headers, retryAfter(res.resetTime, clk))
        ELSE Forwarded([NoResp EXCEPT !.headers = headers], r)

Free(mu) == mu.writer = NoProc /\ mu.readers = {}

\* a goroutine takes up a request
Accept(p, r) ==
    /\ pc[p] = "idle"
    /\ req' = [req EXCEPT ![p] = r]

\* a slip: the flag is not looked at, the request goes on to GetLimiter
Bypass_Limited(p, r) ==
    /\ Accept(p, r)
    /\ ~rateLimitConfig.Enabled
    /\ clientIP' = [clientIP EXCEPT ![p] = getClientIP(r)]
    /\ pc' = [pc EXCEPT ![p] = IF getClientIP(r) = <<>> THEN "done" ELSE "rlock"]
    /\ resp' = [resp EXCEPT ![p] = IF getClientIP(r) = <<>> THEN Forwarded(NoResp, r)
                                   ELSE NoResp]
    /\ UNCHANGED <<clock, rateLimitConfig, heap, limiters, lastCleanup, storeMu,
                   ranging, limiter, now, result, admitted, observed, calls>>

\* rate limiting is disabled: next is called at once
Bypass(p, r) ==
    /\ Accept(p, r)
    /\ ~rateLimitConfig.Enabled
    /\ resp' = [resp EXCEPT ![p] = Forwarded(NoResp, r)]
    /\ pc' = [pc EXCEPT ![p] = "done"]
    /\ UNCHANGED <<clock, rateLimitConfig, heap, limiters, lastCleanup, storeMu,
                   ranging, limiter, now, result, admitted, observed, clientIP, calls>>

\* getClientIP returned "": next is called at once
FailOpen(p, r) ==
    /\ Accept(p, r)
    /\ rateLimitConfig.Enabled
    /\ getClientIP(r) = <<>>
    /\ clientIP' = [clientIP EXCEPT ![p] = getClientIP(r)]
    /\ resp' = [resp EXCEPT ![p] = Forwarded(NoResp, r)]
    /\ pc' = [pc EXCEPT ![p] = "done"]
    /\ UNCHANGED <<clock, rateLimitConfig, heap, limiters, lastCleanup, storeMu,
                   ranging, limiter, now, result, admitted, observed, calls>>

\* the client is known: GetLimiter starts with its test of lastCleanup,
\* read without cls.mu
GetLimiter(p, r) ==
    /\ Accept(p, r)
    /\ rateLimitConfig.Enabled
    /\ getClientIP(r) # <<>>
    /\ clientIP' = [clientIP EXCEPT ![p] = getClientIP(r)]
    /\ resp' = [resp EXCEPT ![p] = NoResp]
    /\ pc' = [pc EXCEPT ![p] = IF clock - lastCleanup > CleanupInterval
                               THEN "cleanup_now" ELSE "rlock"]
    /\ UNCHANGED <<clock, rateLimitConfig, heap, limiters, lastCleanup, storeMu,
                   ranging, limiter, now, result, admitted, observed, calls>>

(***************************************************************************)
(* ClientLimiterStore.cleanupInactiveLimiters                              *)
(***************************************************************************)
\* now := time.Now()
CleanupNow(p) ==
    /\ pc[p] = "cleanup_now"
    /\ now' = [now EXCEPT ![p] = clock]
    /\ pc' = [pc EXCEPT ![p] = "cleanup_lock"]
    /\ UNCHANGED <<clock, rateLimitConfig, heap, limiters, lastCleanup, storeMu,
                   ranging, req, limiter, result, resp, admitted, observed, clientIP, calls>>

\* cls.mu.Lock(); the range loop starts on the keys of the map
CleanupLock(p) ==
    /\ pc[p] = "cleanup_lock"
    /\ Free(storeMu)
    /\ storeMu' = [storeMu EXCEPT !.writer = p]
    /\ ranging' = DOMAIN limiters
    /\ pc' = [pc EXCEPT ![p] = "cleanup_range"]
    /\ UNCHANGED <<clock, rateLimitConfig, heap, limiters, lastCleanup,
                   req, limiter, now, result, resp, admitted, observed, clientIP, calls>>

\* delete(cls.limiters, clientID)
Deleted(lims, clientID) == [k \in DOMAIN lims \ {clientID} |-> lims[k]]

\* the map after the loop body for one entry
Visited(lims, clientID, rl, t, window) ==
    IF isInactive(rl, t, window) THEN Deleted(lims, clientID) ELSE lims

\* one turn of the loop, in the order the map yields its keys: the limiter is
\* read under its read lock, which waits for an Allow that holds rl.mu
CleanupVisit(p, clientID) ==
    /\ pc[p] = "cleanup_range"
    /\ clientID \in ranging
    /\ heap[limiters[clientID]].mu = NoProc
    /\ limiters' = Visited(limiters, clientID, heap[limiters[clientID]], now[p], StoreWindow)
    /\ heap' = Collect(heap, limiters', limiter)
    /\ ranging' = ranging \ {clientID}
    /\ UNCHANGED <<clock, rateLimitConfig, lastCleanup, storeMu, pc, req, limiter,
                   now, result, resp, admitted, observed, clientIP, calls>>

\* a slip: the sweep returns without the Unlock
CleanupUnlock_KeepsLock(p) ==
    /\ pc[p] = "cleanup_range"
    /\ ranging = {}
    /\ lastCleanup' = now[p]
    /\ now' = [now EXCEPT ![p] = 0]
    /\ pc' = [pc EXCEPT ![p] = "rlock"]
    /\ UNCHANGED <<clock, rateLimitConfig, heap, limiters, storeMu, ranging, req,
                   limiter, result, resp, admitted, observed, clientIP, calls>>

\* cls.lastCleanup = now, and the deferred cls.mu.Unlock(); GetLimiter goes on
CleanupUnlock(p) ==
    /\ pc[p] = "cleanup_range"
    /\ ranging = {}
    /\ lastCleanup' = now[p]
    /\ storeMu' = [storeMu EXCEPT !.writer = NoProc]
    /\ now' = [now EXCEPT ![p] = 0]
    /\ pc' = [pc EXCEPT ![p] = "rlock"]
    /\ UNCHANGED <<clock, rateLimitConfig, heap, limiters, ranging, req, limiter,
                   result, resp, admitted, observed, clientIP, calls>>

(***************************************************************************)
(* ClientLimiterStore.GetLimiter after the cleanup                         *)
(***************************************************************************)
\* cls.mu.RLock()
GetRLock(p) ==
    /\ pc[p] = "rlock"
    /\ storeMu.writer = NoProc
    /\ storeMu' = [storeMu EXCEPT !.readers = @ \cup {p}]
    /\ pc' = [pc EXCEPT ![p] = "lookup"]
    /\ UNCHANGED <<clock, rateLimitConfig, heap, limiters, lastCleanup, ranging,
                   req, limiter, now, result, resp, admitted, observed, clientIP, calls>>

\* limiter, exists := cls.limiters[clientID]: the address, or nil
Lookup(lims, clientID) == IF clientID \in DOMAIN lims THEN lims[clientID] ELSE Nil

\* the lookup, cls.mu.RUnlock(), and the return when the entry exists
GetLookup(p) ==
    /\ pc[p] = "lookup"
    /\ limiter' = [limiter EXCEPT ![p] = Lookup(limiters, clientIP[p])]
    /\ storeMu' = [storeMu EXCEPT !.readers = @ \ {p}]
    /\ pc' = [pc EXCEPT ![p] = IF clientIP[p] \in DOMAIN limiters
                               THEN "allow_now" ELSE "lock"]
    /\ UNCHANGED <<clock, rateLimitConfig, heap, limiters, lastCleanup, ranging,
                   req, now, result, resp, admitted, observed, clientIP, calls>>

\* a slip: the second lookup and the insertion without cls.mu.Lock()
GetLock_Skipped(p) ==
    /\ pc[p] = "lock"
    /\ pc' = [pc EXCEPT ![p] = "create"]
    /\ UNCHANGED <<clock, rateLimitConfig, heap, limiters, lastCleanup, storeMu, ranging,
                   req, limiter, now, result, resp, admitted, observed, clientIP, calls>>

\* cls.mu.Lock()
GetLock(p) ==
    /\ pc[p] = "lock"
    /\ Free(storeMu)
    /\ storeMu' = [storeMu EXCEPT !.writer = p]
    /\ pc' = [pc EXCEPT ![p] = "create"]
    /\ UNCHANGED <<clock, rateLimitConfig, heap, limiters, lastCleanup, ranging,
                   req, limiter, now, result, resp, admitted, observed, clientIP, calls>>

\* what GetLimiter returns when its second lookup finds the entry: the local
\* variable limiter, which the first lookup left nil
FoundOnRecheck(mine, lims, clientID) == mine

\* the second lookup finds an entry: return limiter, and the deferred Unlock
GetFound(p) ==
    /\ pc[p] = "create"
    /\ clientIP[p] \in DOMAIN limiters
    /\ limiter' = [limiter EXCEPT
                     ![p] = FoundOnRecheck(limiter[p], limiters, clientIP[p])]
    /\ storeMu' = [storeMu EXCEPT !.writer = NoProc]
    /\ pc' = [pc EXCEPT ![p] = "allow_now"]
    /\ UNCHANGED <<clock, rateLimitConfig, heap, limiters, lastCleanup, ranging,
                   req, now, result, resp, admitted, observed, clientIP, calls>>

\* a slip: the key is not used, every client gets the first counter made
GetCreate_Shared(p) ==
    /\ pc[p] = "create"
    /\ clientIP[p] \notin DOMAIN limiters
    /\ heap' = IF heap = <<>> THEN <<NewRateLimiter(StoreMaxRequests, StoreWindow)>>
               ELSE heap
    /\ limiters' = Present(clientIP[p], 1) @@ limiters
    /\ limiter' = [limiter EXCEPT ![p] = 1]
    /\ storeMu' = [storeMu EXCEPT !.writer = NoProc]
    /\ pc' = [pc EXCEPT ![p] = "allow_now"]
    /\ UNCHANGED <<clock, rateLimitConfig, lastCleanup, ranging, req, now, result,
                   resp, admitted, observed, clientIP, calls>>

\* no entry: NewRateLimiter, the insertion, and the deferred Unlock
GetCreate(p) ==
    /\ pc[p] = "create"
    /\ clientIP[p] \notin DOMAIN limiters
    /\ heap' = Append(heap, NewRateLimiter(StoreMaxRequests, StoreWindow))
    /\ limiters' = Present(clientIP[p], Len(heap) + 1) @@ limiters
    /\ limiter' = [limiter EXCEPT ![p] = Len(heap) + 1]
    /\ storeMu' = [storeMu EXCEPT !.writer = NoProc]
    /\ pc' = [pc EXCEPT ![p] = "allow_now"]
    /\ UNCHANGED <<clock, rateLimitConfig, lastCleanup, ranging, req, now, result,
                   resp, admitted, observed, clientIP, calls>>

(***************************************************************************)
(* RateLimiter.Allow, as the handler calls it on what GetLimiter returned  *)
(***************************************************************************)
\* now := time.Now(), before the lock is taken
AllowNow(p) ==
    /\ pc[p] = "allow_now"
    /\ now' = [now EXCEPT ![p] = clock]
    /\ pc' = [pc EXCEPT ![p] = "allow_lock"]
    /\ UNCHANGED <<clock, rateLimitConfig, heap, limiters, lastCleanup, storeMu,
                   ranging, req, limiter, result, resp, admitted, observed, clientIP, calls>>

\* rl.mu.Lock() on a nil receiver: a nil pointer dereference
AllowNil(p) ==
    /\ pc[p] = "allow_lock"
    /\ limiter[p] = Nil
    /\ now' = [now EXCEPT ![p] = 0]
    /\ pc' = [pc EXCEPT ![p] = "panic"]
    /\ UNCHANGED <<clock, rateLimitConfig, heap, limiters, lastCleanup, storeMu,
                   ranging, req, limiter, result, resp, admitted, observed, clientIP, calls>>

\* rl.mu.Lock()
AllowLock(p) ==
    /\ pc[p] = "allow_lock"
    /\ limiter[p] # Nil
    /\ heap[limiter[p]].mu = NoProc
    /\ heap' = [heap EXCEPT ![limiter[p]].mu = p]
    /\ pc' = [pc EXCEPT ![p] = "allow_body"]
    /\ UNCHANGED <<clock, rateLimitConfig, limiters, lastCleanup, storeMu, ranging,
                   req, limiter, now, result, resp, admitted, observed, clientIP, calls>>

\* a call of Allow on counter a that started at instant inv (where it read the
\* clock) and returned res at instant ret
Returned(a, inv, ret, res) ==
    [lim |-> a, inv |-> inv, ret |-> ret, allowed |-> res.allowed,
     remaining |-> res.remaining, resetTime |-> res.resetTime]

\* the body of Allow and the deferred rl.mu.Unlock(); the handler's variable
\* limiter is dead from here on
AllowDecide(p) ==
    LET a == limiter[p]
        res == Allow(heap[a], now[p])
    IN  /\ pc[p] = "allow_body"
        /\ result' = [result EXCEPT ![p] = [allowed |-> res.allowed,
                                            remaining |-> res.remaining,
                                            resetTime |-> res.resetTime]]
        /\ limiter' = [limiter EXCEPT ![p] = Nil]
        /\ heap' = Collect([heap EXCEPT ![a].requests = res.requests, ![a].mu = NoProc],
                           limiters, limiter')
        /\ admitted' = IF res.allowed
                       THEN Append(admitted, [client |-> clientIP[p], lim |-> a,
                                              at |-> clock])
                       ELSE admitted
        /\ now' = [now EXCEPT ![p] = 0]
        /\ pc' = [pc EXCEPT ![p] = "respond"]
        /\ UNCHANGED <<clock, rateLimitConfig, limiters, lastCleanup, storeMu,
                       ranging, req, resp, observed, clientIP>>

\* Allow returns to the handler
AllowBody(p) == AllowDecide(p) /\ UNCHANGED calls

\* the headers, and either the 429 (with time.Until read now) or next
Respond(p) ==
    /\ pc[p] = "respond"
    /\ resp' = [resp EXCEPT ![p] = Response(rateLimitConfig.RequestsPerMinute,
                                            result[p], req[p], clock)]
    /\ pc' = [pc EXCEPT ![p] = "done"]
    /\ UNCHANGED <<clock, rateLimitConfig, heap, limiters, lastCleanup, storeMu,
                   ranging, req, limiter, now, result, admitted, observed, clientIP, calls>>

Next ==
    \/ Tick
    \/ \E p \in Procs, r \in Requests : Bypass(p, r)
    \/ \E p \in Procs, r \in Requests : FailOpen(p, r)
    \/ \E p \in Procs, r \in Requests : GetLimiter(p, r)
    \/ \E p \in Procs : CleanupNow(p)
    \/ \E p \in Procs : CleanupLock(p)
    \/ \E p \in Procs, clientID \in ranging : CleanupVisit(p, clientID)
    \/ \E p \in Procs : CleanupUnlock(p)
    \/ \E p \in Procs : GetRLock(p)
    \/ \E p \in Procs : GetLookup(p)
    \/ \E p \in Procs : GetLock(p)
    \/ \E p \in Procs : GetFound(p)
    \/ \E p \in Procs : GetCreate(p)
    \/ \E p \in Procs : AllowNow(p)
    \/ \E p \in Procs : AllowNil(p)
    \/ \E p \in Procs : AllowLock(p)
    \/ \E p \in Procs : AllowBody(p)
    \/ \E p \in Procs : Respond(p)

Spec == Init /\ [][Next]_vars

(***************************************************************************)
(* One caller that calls Allow on a new RateLimiter again and again, at    *)
(* instants around the window's boundaries.  Alone, it reads the clock and *)
(* takes the lock without anything happening in between.                   *)
(***************************************************************************)
SeqCaller == "g1"

SeqInstants == {0, 1, 2, 3, Window - 1, Window, Window + 1, Window + 3, 2 * Window}

InitSeq ==
    /\ clock = 0
    /\ rateLimitConfig \in [Enabled : {TRUE}, RequestsPerMinute : 0..MaxCapacity]
    /\ heap = <<NewRateLimiter(rateLimitConfig.RequestsPerMinute, Window)>>
    /\ limiters = <<>>
    /\ lastCleanup = 0
    /\ storeMu = [writer |-> NoProc, readers |-> {}]
    /\ ranging = {}
    /\ pc = [p \in Procs |-> "idle"]
    /\ req = [p \in Procs |-> NoRequest]
    /\ limiter = [p \in Procs |-> IF p = SeqCaller THEN 1 ELSE Nil]
    /\ now = [p \in Procs |-> 0]
    /\ result = [p \in Procs |-> NoResult]
    /\ resp = [p \in Procs |-> NoResp]
    /\ admitted = <<>>
    /\ observed = NoObserved
    /\ clientIP = [p \in Procs |-> <<>>]
    /\ calls = <<>>

SeqTick ==
    /\ \E t \in SeqInstants : t > clock /\ clock' = t
    /\ UNCHANGED <<rateLimitConfig, heap, limiters, lastCleanup, storeMu, ranging,
                   pc, req, limiter, now, result, resp, admitted, observed, clientIP, calls>>

\* what the caller has seen after a call at instant t that found rl and got res
Seen(seen, rl, t, res) ==
    [calls |-> seen.calls + 1,
     first |-> IF seen.calls = 0 THEN t ELSE seen.first,
     last |-> t,
     denied |-> IF res.allowed THEN -1 ELSE res.resetTime,
     wasEmpty |-> rl.requests = <<>>,
     wasDue |-> seen.denied # -1 /\ t >= seen.denied]

\* one whole call of Allow
SeqAllow ==
    LET a == limiter[SeqCaller]
        res == Allow(heap[a], clock)
    IN  /\ observed.calls < SeqMaxCalls
        /\ heap' = [heap EXCEPT ![a].requests = res.requests]
        /\ result' = [result EXCEPT ![SeqCaller] = [allowed |-> res.allowed,
                                                    remaining |-> res.remaining,
                                                    resetTime |-> res.resetTime]]
        /\ observed' = Seen(observed, heap[a], clock, res)
        /\ UNCHANGED <<clock, rateLimitConfig, limiters, lastCleanup, storeMu, ranging,
                       pc, req, limiter, now, resp, admitted, clientIP, calls>>

NextSeq == SeqTick \/ SeqAllow

SpecSeq == InitSeq /\ [][NextSeq]_vars

Capacity == rateLimitConfig.RequestsPerMinute

(***************************************************************************)
(* C5.  On a new counter, calls of Allow that all fall within less than    *)
(* the window are admitted up to the capacity and denied from the          *)
(* (capacity+1)-th on: the n-th such call is admitted exactly when         *)
(* n <= capacity.                                                          *)
(***************************************************************************)
C5_BurstAdmitsCapacity ==
    (observed.calls >= 1 /\ observed.last - observed.first < Window)
        => (result[SeqCaller].allowed <=> observed.calls <= Capacity)

\* the (capacity+1)-th call of a burst on the largest capacity, denied
C5_Witness ==
    /\ Capacity = MaxCapacity
    /\ observed.calls = Capacity + 1
    /\ observed.last - observed.first < Window
    /\ ~result[SeqCaller].allowed

(***************************************************************************)
(* C6.  As claimed: a call of Allow on a counter holding no timestamps is  *)
(* admitted with remaining = capacity - 1, whatever the capacity.          *)
(***************************************************************************)
C6_EmptyAdmits_AsClaimed ==
    (observed.calls >= 1 /\ observed.wasEmpty)
        => (result[SeqCaller].allowed /\ result[SeqCaller].remaining = Capacity - 1)

(***************************************************************************)
(* C6, amended.  For every capacity of at least 1, a call of Allow on a    *)
(* counter holding no timestamps is admitted with remaining =              *)
(* capacity - 1; with capacity 0 it is denied with remaining 0.            *)
(***************************************************************************)
C6_EmptyAdmits ==
    (observed.calls >= 1 /\ observed.wasEmpty)
        => IF Capacity >= 1
           THEN result[SeqCaller].allowed /\ result[SeqCaller].remaining = Capacity - 1
           ELSE ~result[SeqCaller].allowed /\ result[SeqCaller].remaining = 0

\* the first call on a new counter of the largest capacity, admitted
C6_Witness ==
    /\ Capacity = MaxCapacity
    /\ observed.calls = 1
    /\ observed.wasEmpty
    /\ result[SeqCaller].allowed
    /\ result[SeqCaller].remaining = Capacity - 1

(***************************************************************************)
(* C7.  As claimed: after a denial with reset time resetAt, the next call  *)
(* made at or after resetAt, with no admission in between, is admitted.    *)
(***************************************************************************)
C7_AdmittedAfterReset_AsClaimed ==
    observed.wasDue => result[SeqCaller].allowed

(***************************************************************************)
(* C7, amended.  The same, for every capacity of at least 1.               *)
(***************************************************************************)
C7_AdmittedAfterReset ==
    (observed.wasDue /\ Capacity >= 1) => result[SeqCaller].allowed

\* a call at exactly the reset time of an earlier denial, admitted
C7_Witness ==
    /\ observed.wasDue
    /\ Capacity >= 1
    /\ result[SeqCaller].allowed
    /\ observed.last = observed.first + Window

(***************************************************************************)
(* Claims about the middleware under concurrent requests (Spec).           *)
(***************************************************************************)
\* the admissions of the window that ends now which satisfy P
Admissions(P(_)) == {i \in DOMAIN admitted : P(admitted[i])}

ClientIDs == {getClientIP(r) : r \in Requests} \ {<<>>}

(***************************************************************************)
(* C1.  For every client identity, the requests admitted within any        *)
(* trailing window (counted over every counter the store ever held for     *)
(* the identity) number at most the capacity.  An admission's instant is   *)
(* the instant at which Allow decides; admitted holds the admissions of    *)
(* the window that ends at the present instant.                            *)
(***************************************************************************)
C1_ClientWithinCapacity ==
    \A k \in ClientIDs :
        Cardinality(Admissions(LAMBDA a : a.client = k)) <= Capacity

(***************************************************************************)
(* C2.  For every single RateLimiter, the calls of Allow it admitted       *)
(* within any trailing window number at most the capacity.                 *)
(***************************************************************************)
C2_CounterWithinCapacity ==
    \A l \in DOMAIN heap :
        Cardinality(Admissions(LAMBDA a : a.lim = l)) <= Capacity

\* the counters in use for an identity: the one the map holds, and those
\* GetLimiter handed to goroutines that serve the identity
CountersOf(k) ==
    {limiters[c] : c \in DOMAIN limiters \cap {k}}
    \cup {limiter[p] : p \in {q \in Procs : getClientIP(req[q]) = k /\ limiter[q] # Nil}}

(***************************************************************************)
(* C3.  Concurrent first requests of one identity get one counter: there   *)
(* are never two counters in use for the same identity.                    *)
(***************************************************************************)
C3_OneCounterPerClient ==
    \A k \in ClientIDs : Cardinality(CountersOf(k)) <= 1

(***************************************************************************)
(* C4.  No request panics: every request served ends forwarded to next or  *)
(* answered 429.                                                           *)
(***************************************************************************)
C4_NeverPanics ==
    \A p \in Procs :
        /\ pc[p] # "panic"
        /\ pc[p] = "done" => (resp[p].next = 1 \/ resp[p].status = StatusTooManyRequests)

\* a counter that is idle at instant t, in the words of the claim
Idle(rl, t) ==
    \/ rl.requests = <<>>
    \/ t - rl.requests[Len(rl.requests)] > 2 * Window

\* a counter whose first request is being processed: it holds no timestamp
\* yet and a goroutine is between GetLimiter and the end of Allow with it
InFirstRequest(a) == heap[a].requests = <<>> /\ \E q \in Procs : limiter[q] = a

(***************************************************************************)
(* C8.  Each turn of the sweep removes the counter it visits when that is  *)
(* idle (no timestamps, or the latest older than twice the window) and     *)
(* leaves it when it was active within that time or its first request is   *)
(* being processed; the sweep ends with lastCleanup set to its instant.    *)
(***************************************************************************)
C8_SweepRemovesIdleOnly ==
    [][\A p \in Procs :
        /\ \A k \in ranging :
             (pc[p] = "cleanup_range" /\ ranging' = ranging \ {k})
                 => IF Idle(heap[limiters[k]], now[p]) /\ ~InFirstRequest(limiters[k])
                    THEN k \notin DOMAIN limiters'
                    ELSE k \in DOMAIN limiters' /\ limiters'[k] = limiters[k]
        /\ (pc[p] = "cleanup_range" /\ pc'[p] = "rlock") => lastCleanup' = now[p]
      ]_vars

(***************************************************************************)
(* C9.  A request with no usable identity (no proxy header holding a valid *)
(* IP, a peer address that yields none) is forwarded at once: it is never  *)
(* answered 429 and never gets to a counter.                               *)
(***************************************************************************)
C9_FailOpen ==
    \A p \in Procs :
        (rateLimitConfig.Enabled /\ pc[p] # "idle" /\ ~Identifiable(req[p]))
            => /\ pc[p] = "done"
               /\ resp[p].next = 1
               /\ resp[p].status # StatusTooManyRequests

\* whether the handler let the request of p pass: without identity, or by Allow
Admitted(p) == getClientIP(req[p]) = <<>> \/ result[p].allowed

(***************************************************************************)
(* C10.  With rate limiting enabled, next is called (once, with the        *)
(* request as received) exactly for the admitted requests; a denied        *)
(* request is answered 429 RATE_LIMIT_EXCEEDED and next is not called.     *)
(***************************************************************************)
C10_NextIffAdmitted ==
    \A p \in Procs :
        rateLimitConfig.Enabled =>
            /\ pc[p] # "done" => resp[p].next = 0
            /\ pc[p] = "done" =>
                 /\ resp[p].next = (IF Admitted(p) THEN 1 ELSE 0)
                 /\ Admitted(p) => resp[p].forwarded = req[p]
                 /\ ~Admitted(p) => /\ resp[p].status = StatusTooManyRequests
                                    /\ resp[p].code = "RATE_LIMIT_EXCEEDED"

\* one request denied with its 429 while another was forwarded
C10_Witness ==
    \E p, q \in Procs :
        /\ rateLimitConfig.Enabled
        /\ pc[p] = "done" /\ ~Admitted(p)
        /\ resp[p].status = StatusTooManyRequests /\ resp[p].next = 0
        /\ pc[q] = "done" /\ result[q].allowed /\ resp[q].next = 1

\* the value of header k among the headers h; <<>> when it is not set
Header(h, k) == IF k \in DOMAIN h THEN h[k] ELSE <<>>

(***************************************************************************)
(* C11.  Every request of an identified client that the enabled middleware *)
(* has processed carries X-RateLimit-Limit = the configured capacity,      *)
(* X-RateLimit-Remaining = the remaining its Allow call returned (0 on a   *)
(* denial), X-RateLimit-Reset = the unix time of the returned reset time   *)
(* and X-RateLimit-Window = the window in seconds; Retry-After is set      *)
(* exactly on a denial.                                                    *)
(***************************************************************************)
C11_HeadersOnEveryRequest ==
    \A p \in Procs :
        (rateLimitConfig.Enabled /\ Identifiable(req[p]) /\ pc[p] \in {"done", "panic"})
            => /\ Header(resp[p].headers, "X-RateLimit-Limit") = Itoa(Capacity)
               /\ Header(resp[p].headers, "X-RateLimit-Remaining") = Itoa(result[p].remaining)
               /\ ~result[p].allowed => result[p].remaining = 0
               /\ Header(resp[p].headers, "X-RateLimit-Reset") = Itoa(result[p].resetTime)
               /\ Header(resp[p].headers, "X-RateLimit-Window") = Itoa(Window)
               /\ ("Retry-After" \in DOMAIN resp[p].headers) <=> ~result[p].allowed

\* the timestamps among requests that lie within the window ending at t
Retained(requests, t) == SelectSeq(requests, LAMBDA x : x > t - Window)

Max(a, b) == IF a >= b THEN a ELSE b

\* whether the message holds the digits somewhere
Embeds(message, digits) ==
    \E i \in 1..Len(message) : SubSeq(message, i, i + Len(digits) - 1) = digits

\* the Retry-After of the 429 that p writes in this step, for a reset time
RetryAfterIs(p, resetTime) ==
    LET n == Itoa(Max(1, resetTime - clock))
    IN  /\ Header(resp'[p].headers, "Retry-After") = n
        /\ Embeds(resp'[p].message, n)

C13_DisabledBypasses ==
    ~rateLimitConfig.Enabled =>
        /\ heap = <<>> /\ limiters = <<>> /\ calls = <<>>
        /\ \A p \in Procs :
             /\ pc[p] \in {"idle", "done"}
             /\ limiter[p] = Nil
             /\ pc[p] = "done" =>
                  /\ resp[p].next = 1 /\ resp[p].forwarded = req[p]
                  /\ resp[p].headers = <<>>
                  /\ resp[p].status # StatusTooManyRequests

\* two requests of one client forwarded although the capacity is below two
C13_Witness ==
    /\ ~rateLimitConfig.Enabled
    /\ Capacity < Cardinality(Procs)
    /\ \A p \in Procs :
         /\ pc[p] = "done" /\ req[p] = ReqProxied
         /\ resp[p].next = 1 /\ resp[p].headers = <<>>

(***************************************************************************)
(* Goroutines that call Allow concurrently on one client's counter, each   *)
(* call when its last one has returned; calls keeps what every call        *)
(* returned and when.                                                      *)
(***************************************************************************)
ConcClient == <<IP1>>

InitConc ==
    /\ clock = 0
    /\ rateLimitConfig \in [Enabled : {TRUE}, RequestsPerMinute : 0..MaxCapacity]
    /\ heap = <<NewRateLimiter(rateLimitConfig.RequestsPerMinute, Window)>>
    /\ limiters = Present(ConcClient, 1)
    /\ lastCleanup = 0
    /\ storeMu = [writer |-> NoProc, readers |-> {}]
    /\ ranging = {}
    /\ pc = [p \in Procs |-> "allow_now"]
    /\ req = [p \in Procs |-> ReqProxied]
    /\ limiter = [p \in Procs |-> 1]
    /\ now = [p \in Procs |-> 0]
    /\ result = [p \in Procs |-> NoResult]
    /\ resp = [p \in Procs |-> NoResp]
    /\ admitted = <<>>
    /\ observed = NoObserved
    /\ clientIP = [p \in Procs |-> ConcClient]
    /\ calls = <<>>

\* Allow returns to its caller
AllowReturned(p) ==
    /\ AllowDecide(p)
    /\ calls' = Append(calls, Returned(limiter[p], now[p], clock,
                                       Allow(heap[limiter[p]], now[p])))

\* the caller calls Allow once more on the same counter
CallAgain(p) ==
    /\ pc[p] = "respond"
    /\ Len(calls) + Cardinality({q \in Procs : pc[q] # "respond"}) < ConcMaxCalls
    /\ limiter' = [limiter EXCEPT ![p] = limiters[ConcClient]]
    /\ pc' = [pc EXCEPT ![p] = "allow_now"]
    /\ UNCHANGED <<clock, rateLimitConfig, heap, limiters, lastCleanup, storeMu,
                   ranging, req, now, result, resp, admitted, observed, clientIP, calls>>

\* time passes while the callers call
ConcTick ==
    /\ clock + TickSeconds <= ConcMaxTicks * TickSeconds
    /\ clock' = clock + TickSeconds
    /\ admitted' = SelectSeq(admitted, LAMBDA a : a.at > clock' - Window)
    /\ UNCHANGED <<rateLimitConfig, heap, limiters, lastCleanup, storeMu, ranging,
                   pc, req, limiter, now, result, resp, observed, clientIP, calls>>

NextConc ==
    \/ ConcTick
    \/ \E p \in Procs : AllowNow(p)
    \/ \E p \in Procs : AllowLock(p)
    \/ \E p \in Procs : AllowReturned(p)
    \/ \E p \in Procs : CallAgain(p)

SpecConc == InitConc /\ [][NextConc]_vars

\* the instants the clock takes
Instants == {k * TickSeconds : k \in 0..MaxTicks}

\* the arrangements of a finite set in a row
Orders(S) ==
    {o \in [1..Cardinality(S) -> S] : \A i, j \in 1..Cardinality(S) : o[i] = o[j] => i = j}

\* whether the calls order[1], order[2], ... made one after the other on rl,
\* the call i at instant t[i], return what they returned
RECURSIVE Replays(_, _, _)
Replays(rl, order, t) ==
    IF order = <<>> THEN TRUE
    ELSE LET c == calls[Head(order)]
             res == Allow(rl, t[Head(order)])
         IN  /\ res.allowed = c.allowed
             /\ res.remaining = c.remaining
             /\ res.resetTime = c.resetTime
             /\ Replays([rl EXCEPT !.requests = res.requests], Tail(order), t)

\* the calls made on counter l
CallsOn(l) == {i \in DOMAIN calls : calls[i].lim = l}

(***************************************************************************)
(* C14.  The calls of Allow on one counter are linearizable: there are an  *)
(* order of the calls and, for each call, an instant between its start and *)
(* its return, the instants not decreasing along the order, such that the  *)
(* calls made one after the other in that order at those instants, on a    *)
(* counter that starts empty, return what the concurrent calls returned.   *)
(***************************************************************************)
C14_Linearizable ==
    \A l \in DOMAIN heap :
        \E order \in Orders(CallsOn(l)) :
            \E t \in [CallsOn(l) -> Instants] :
                /\ \A i \in CallsOn(l) : calls[i].inv <= t[i] /\ t[i] <= calls[i].ret
                /\ \A j, k \in DOMAIN order : j < k => t[order[j]] <= t[order[k]]
                /\ Replays(NewRateLimiter(Capacity, Window), order, t)

(***************************************************************************)
(* getClientIP on requests whose headers and peer address range over the   *)
(* kinds of value that matter to it.                                       *)
(***************************************************************************)
\* a header: absent, an IP, no IP, a list that starts with an IP, a list
\* that starts with no IP, an IP followed by something else
HeaderValues ==
    {<<>>, <<IP1>>, <<"unknown">>, <<IP1, ",", " ", IP2>>,
     <<"unknown", ",", " ", IP2>>, <<IP2, ",", "unknown">>}

\* r.RemoteAddr: host:port, no host:port, empty
RemoteAddrs == {<<IP2, ":", Port>>, <<"@">>, <<>>}

IdCaller == "g1"

InitId ==
    /\ clock = 0
    /\ rateLimitConfig = [Enabled |-> TRUE, RequestsPerMinute |-> MaxCapacity]
    /\ heap = <<>>
    /\ limiters = <<>>
    /\ lastCleanup = 0
    /\ storeMu = [writer |-> NoProc, readers |-> {}]
    /\ ranging = {}
    /\ pc = [p \in Procs |-> "idle"]
    /\ \E xff, xri, cf \in HeaderValues, remote \in RemoteAddrs :
         req = [p \in Procs |-> IF p = IdCaller THEN Request(xff, xri, cf, remote)
                                ELSE NoRequest]
    /\ limiter = [p \in Procs |-> Nil]
    /\ now = [p \in Procs |-> 0]
    /\ result = [p \in Procs |-> NoResult]
    /\ resp = [p \in Procs |-> NoResp]
    /\ admitted = <<>>
    /\ observed = NoObserved
    /\ clientIP = [p \in Procs |-> <<>>]
    /\ calls = <<>>

\* clientIP := getClientIP(r)
Identify ==
    /\ pc[IdCaller] = "idle"
    /\ clientIP' = [clientIP EXCEPT ![IdCaller] = getClientIP(req[IdCaller])]
    /\ pc' = [pc EXCEPT ![IdCaller] = "identified"]
    /\ UNCHANGED <<clock, rateLimitConfig, heap, limiters, lastCleanup, storeMu,
                   ranging, req, limiter, now, result, resp, admitted, observed, calls>>

NextId == Identify

SpecId == InitId /\ [][NextId]_vars

\* the value of a header as the claim takes it: of X-Forwarded-For the first
\* element of the list, of the other two the whole value; outer blanks aside
FirstElement(v) == IF Index(v, ",") # 0 THEN SubSeq(v, 1, Index(v, ",") - 1) ELSE v

ClaimedValues(r) ==
    <<TrimSpace(FirstElement(r.XForwardedFor)), TrimSpace(r.XRealIP),
      TrimSpace(r.CFConnectingIP)>>

(***************************************************************************)
(* C15.  The client identity is the first of X-Forwarded-For (its first    *)
(* comma-separated element), X-Real-IP, CF-Connecting-IP that is a valid   *)
(* IP address, a header whose value is no valid IP being passed over; the  *)
(* peer address is used only when no header yields a valid IP.             *)
(***************************************************************************)
C15_FirstValidHeader ==
    pc[IdCaller] = "identified" =>
        LET v == ClaimedValues(req[IdCaller])
            valid == {i \in 1..3 : ParseIPOk(v[i])}
            hp == SplitHostPort(req[IdCaller].RemoteAddr)
        IN  IF valid # {}
            THEN clientIP[IdCaller] = v[CHOOSE i \in valid : \A j \in valid : i <= j]
            ELSE clientIP[IdCaller] = (IF ~hp.err /\ ParseIPOk(hp.host) THEN hp.host
                                       ELSE req[IdCaller].RemoteAddr)

(***************************************************************************)
(* C16.  Whenever GetLimiter returns, from the lookup under the read lock  *)
(* or from the second lookup or the creation under the write lock, it      *)
(* returns the counter the map holds for the client at that moment.        *)
(***************************************************************************)
C16_ReturnsRegistered ==
    [][\A p \in Procs :
        (pc[p] \in {"lookup", "create"} /\ pc'[p] = "allow_now")
            => /\ clientIP[p] \in DOMAIN limiters'
               /\ limiter'[p] = limiters'[clientIP[p]]
      ]_vars

\* whether the call of Allow made in this step, at instant t on a counter
\* holding requests, did what is said of it; onEmpty is the reset time of a
\* denial that finds no timestamp within the window
AllowDid(requests, t, onEmpty) ==
    LET kept == Retained(requests, t)
        used == Len(kept)
    IN  IF used < Capacity
        THEN /\ heap'[limiter[SeqCaller]].requests = Append(kept, t)
             /\ result'[SeqCaller] = [allowed |-> TRUE, remaining |-> Capacity - used - 1,
                                      resetTime |-> t + Window]
        ELSE /\ heap'[limiter[SeqCaller]].requests = kept
             /\ result'[SeqCaller].allowed = FALSE
             /\ result'[SeqCaller].remaining = 0
             /\ result'[SeqCaller].resetTime \in
                    (IF kept # <<>> THEN {kept[1] + Window} ELSE onEmpty)

C18_ResetNotInPast ==
    [][\A p \in Procs :
        (pc[p] = "allow_body" /\ pc'[p] = "respond" /\ ~result'[p].allowed)
            => result'[p].resetTime >= clock
      ]_vars

\* the timestamps the call of Allow that p ends in this step has counted: what
\* it leaves in the counter, without the one it appended
Counted(p) ==
    LET after == heap'[limiter[p]].requests
    IN  IF result'[p].allowed /\ after # <<>> THEN SubSeq(after, 1, Len(after) - 1)
        ELSE after

(***************************************************************************)
(* C19.  When Allow counts, after its pruning, every timestamp left in the *)
(* counter lies within [now - window, now], now being the instant the call *)
(* evaluates for.                                                          *)
(***************************************************************************)
C19_CountedWithinWindow ==
    [][\A p \in Procs :
        (pc[p] = "allow_body" /\ pc'[p] = "respond")
            => \A i \in DOMAIN Counted(p) :
                   /\ now[p] - Window <= Counted(p)[i]
                   /\ Counted(p)[i] <= now[p]
      ]_vars

(***************************************************************************)
(* C20.  In every reachable state the timestamps of every counter are in   *)
(* order, oldest first.                                                    *)
(***************************************************************************)
C20_TimestampsOrdered ==
    \A a \in DOMAIN heap :
        \A i, j \in DOMAIN heap[a].requests :
            i < j => heap[a].requests[i] <= heap[a].requests[j]

(***************************************************************************)
(* C21.  Two sweeps are never less than the cleanup interval apart: when a *)
(* sweep starts (it has read its now and takes cls.mu), at least the       *)
(* interval has passed since the instant the last sweep left in            *)
(* lastCleanup.                                                            *)
(***************************************************************************)
C21_SweepsAnIntervalApart ==
    [][\A p \in Procs :
        (pc[p] = "cleanup_lock" /\ pc'[p] = "cleanup_range")
            => now[p] - lastCleanup >= CleanupInterval
      ]_vars

(***************************************************************************)
(* C22.  While a sweep inspects the counters it does not hold cls.mu for   *)
(* writing: the lock is held for the deletions only, once every counter    *)
(* has been inspected.                                                     *)
(***************************************************************************)
C22_InspectsWithoutStoreLock ==
    \A p \in Procs :
        (pc[p] = "cleanup_range" /\ ranging # {}) => storeMu.writer # p

\* the goroutine that takes the step from the present state to the next
Acts(p) == pc'[p] # pc[p] \/ (pc[p] = "cleanup_range" /\ ranging' # ranging)

(***************************************************************************)
(* C23.  The map is changed only by a goroutine that holds cls.mu for      *)
(* writing and looked up only by one that holds it for reading or writing; *)
(* the timestamps of a counter are changed only by the goroutine that      *)
(* holds the counter's lock, and the sweep reads them only while no        *)
(* goroutine holds that lock for writing.                                  *)
(***************************************************************************)
C23_LockDiscipline ==
    [][\A p \in Procs : Acts(p) =>
        /\ limiters' # limiters => storeMu.writer = p
        /\ pc[p] = "lookup" => p \in storeMu.readers
        /\ pc[p] = "create" => storeMu.writer = p
        /\ \A a \in DOMAIN heap :
             (heap'[a].requests # heap[a].requests /\ heap'[a] # Freed)
                 => heap[a].mu = p
        /\ \A k \in ranging :
             ranging' = ranging \ {k} => heap[limiters[k]].mu = NoProc
      ]_vars

\* a sweep has deleted under cls.mu the counter on which another goroutine
\* now runs Allow under the counter's lock
C23_Witness ==
    \E p, q \in Procs :
        /\ pc[p] = "cleanup_range" /\ storeMu.writer = p
        /\ ranging = {} /\ limiters = <<>>
        /\ pc[q] = "allow_body" /\ heap[limiter[q]].mu = q

(***************************************************************************)
(* A server that has been up for a while without an identified request     *)
(* and then serves requests of one client, one after the other and         *)
(* concurrently: a goroutine that has ended makes room for the next.       *)
(***************************************************************************)
\* the instant of the first request
QuietSeconds == 180

InitBusy ==
    /\ clock = QuietSeconds
    /\ rateLimitConfig = [Enabled |-> TRUE, RequestsPerMinute |-> MaxCapacity]
    /\ heap = <<>>
    /\ limiters = <<>>
    /\ lastCleanup = 0
    /\ storeMu = [writer |-> NoProc, readers |-> {}]
    /\ ranging = {}
    /\ pc = [p \in Procs |-> "idle"]
    /\ req = [p \in Procs |-> NoRequest]
    /\ limiter = [p \in Procs |-> Nil]
    /\ now = [p \in Procs |-> 0]
    /\ result = [p \in Procs |-> NoResult]
    /\ resp = [p \in Procs |-> NoResp]
    /\ admitted = <<>>
    /\ observed = NoObserved
    /\ clientIP = [p \in Procs |-> <<>>]
    /\ calls = <<>>

\* the handler has returned (or the panic has unwound it): the goroutine's
\* variables are gone, and the next request is served under its name
NextRequest(p) ==
    /\ pc[p] \in {"done", "panic"}
    /\ pc' = [pc EXCEPT ![p] = "idle"]
    /\ req' = [req EXCEPT ![p] = NoRequest]
    /\ result' = [result EXCEPT ![p] = NoResult]
    /\ resp' = [resp EXCEPT ![p] = NoResp]
    /\ clientIP' = [clientIP EXCEPT ![p] = <<>>]
    /\ UNCHANGED <<clock, rateLimitConfig, heap, limiters, lastCleanup, storeMu,
                   ranging, limiter, now, admitted, observed, calls>>

NextBusy ==
    \/ Tick
    \/ \E p \in Procs : GetLimiter(p, ReqProxied)
    \/ \E p \in Procs : CleanupNow(p)
    \/ \E p \in Procs : CleanupLock(p)
    \/ \E p \in Procs, clientID \in ranging : CleanupVisit(p, clientID)
    \/ \E p \in Procs : CleanupUnlock(p)
    \/ \E p \in Procs : GetRLock(p)
    \/ \E p \in Procs : GetLookup(p)
    \/ \E p \in Procs : GetLock(p)
    \/ \E p \in Procs : GetFound(p)
    \/ \E p \in Procs : GetCreate(p)
    \/ \E p \in Procs : AllowNow(p)
    \/ \E p \in Procs : AllowNil(p)
    \/ \E p \in Procs : AllowLock(p)
    \/ \E p \in Procs : AllowBody(p)
    \/ \E p \in Procs : Respond(p)
    \/ \E p \in Procs : NextRequest(p)

SpecBusy == InitBusy /\ [][NextBusy]_vars

(***************************************************************************)
(* C25.  A sweep never removes a counter that holds a timestamp within the *)
(* window that ends at the sweep's instant.                                *)
(***************************************************************************)
C25_SweepKeepsCurrent ==
    [][\A p \in Procs : \A k \in ranging :
        (/\ pc[p] = "cleanup_range"
         /\ ranging' = ranging \ {k}
         /\ \E i \in DOMAIN heap[limiters[k]].requests :
                heap[limiters[k]].requests[i] > now[p] - Window)
            => k \in DOMAIN limiters' /\ limiters'[k] = limiters[k]
      ]_vars

(***************************************************************************)
(* C26.  Whenever Allow records an admission, the counter it records it in *)
(* is the one the map holds for the client at that moment.                 *)
(***************************************************************************)
C26_AdmissionInRegistered ==
    [][\A p \in Procs :
        (pc[p] = "allow_body" /\ pc'[p] = "respond" /\ result'[p].allowed)
            => /\ clientIP[p] \in DOMAIN limiters
               /\ limiters[clientIP[p]] = limiter[p]
      ]_vars

(***************************************************************************)
(* C28.  A call of Allow that denies appends nothing: it leaves the        *)
(* counter's timestamps as they were but for a number of leading entries   *)
(* it has dropped, all of which are expired for the now of the call.       *)
(***************************************************************************)
C28_DenialAppendsNothing ==
    [][\A p \in Procs :
        (pc[p] = "allow_body" /\ pc'[p] = "respond" /\ ~result'[p].allowed)
            => LET old == heap[limiter[p]].requests
                   new == heap'[limiter[p]].requests
               IN  \E n \in 0..Len(old) :
                       /\ new = SubSeq(old, n + 1, Len(old))
                       /\ \A i \in 1..n : old[i] <= now[p] - Window
      ]_vars

\* the latest call was denied on a counter that is full, and has left it full
C28_Witness ==
    /\ calls # <<>>
    /\ ~calls[Len(calls)].allowed
    /\ Capacity >= 1
    /\ Len(heap[calls[Len(calls)].lim].requests) = Capacity

C30_LastCleanupUnderLock ==
    [][\A p \in Procs :
        /\ (pc[p] = "idle" /\ pc'[p] \in {"cleanup_now", "rlock"})
               => (storeMu.writer = p \/ p \in storeMu.readers)
        /\ lastCleanup' # lastCleanup => (Acts(p) => storeMu.writer = p)
      ]_vars

(***************************************************************************)
(* The same requests under a fair scheduler: a goroutine that can take a   *)
(* step takes one in the end (the Go scheduler pre-empts, and a sync       *)
(* mutex hands the lock to a waiter).  Requests arrive, and time passes,   *)
(* as they please.                                                         *)
(***************************************************************************)
Step(p) ==
    \/ CleanupNow(p)
    \/ CleanupLock(p)
    \/ \E clientID \in ranging : CleanupVisit(p, clientID)
    \/ CleanupUnlock(p)
    \/ GetRLock(p)
    \/ GetLookup(p)
    \/ GetLock(p)
    \/ GetFound(p)
    \/ GetCreate(p)
    \/ AllowNow(p)
    \/ AllowNil(p)
    \/ AllowLock(p)
    \/ AllowBody(p)
    \/ Respond(p)

\* the server has been up for a while, as in InitBusy, under any configuration
InitFair ==
    /\ clock = QuietSeconds
    /\ rateLimitConfig \in [Enabled : BOOLEAN, RequestsPerMinute : 0..MaxCapacity]
    /\ heap = <<>>
    /\ limiters = <<>>
    /\ lastCleanup = 0
    /\ storeMu = [writer |-> NoProc, readers |-> {}]
    /\ ranging = {}
    /\ pc = [p \in Procs |-> "idle"]
    /\ req = [p \in Procs |-> NoRequest]
    /\ limiter = [p \in Procs |-> Nil]
    /\ now = [p \in Procs |-> 0]
    /\ result = [p \in Procs |-> NoResult]
    /\ resp = [p \in Procs |-> NoResp]
    /\ admitted = <<>>
    /\ observed = NoObserved
    /\ clientIP = [p \in Procs |-> <<>>]
    /\ calls = <<>>

SpecFair == InitFair /\ [][Next]_vars /\ \A p \in Procs : WF_vars(Step(p))

\* the handler has returned, or its panic has unwound it up to the Recoverer,
\* which answers
Completed(p) == pc[p] \in {"done", "panic"}

\* the goroutines that hold a lock of some counter
HoldsCounter(p) == \E a \in DOMAIN heap : heap[a].mu = p

(***************************************************************************)
(* C27.  No deadlock: a goroutine that holds a counter's lock holds no     *)
(* lock of the registry and takes none before it releases (the locks are   *)
(* nested registry first, counter second, as in the sweep), and under a    *)
(* fair scheduler every request taken up completes.                        *)
(***************************************************************************)
C27_NoDeadlock ==
    /\ [](\A p \in Procs :
            HoldsCounter(p) => /\ pc[p] = "allow_body"
                               /\ storeMu.writer # p /\ p \notin storeMu.readers)
    /\ \A p \in Procs : (pc[p] # "idle") ~> Completed(p)

\* the nested case: a sweep, holding the registry's lock, has to wait for the
\* lock of a counter on which another goroutine runs Allow
C27_Witness ==
    \E p, q \in Procs : \E k \in ranging :
        /\ pc[p] = "cleanup_range" /\ storeMu.writer = p
        /\ pc[q] = "allow_body" /\ heap[limiters[k]].mu = q


\* the counter at address a has recorded a request, and none for longer than
\* twice the window before t
IdleAt(a, t) ==
    /\ a \in DOMAIN heap
    /\ Len(heap[a].requests) > 0
    /\ t - heap[a].requests[Len(heap[a].requests)] > StoreWindow * 2

\* the addresses a run can see: each request creates one counter at most
Addrs == 1..Cardinality(Procs)

\* the counter at address a is in the map
Registered(a) == \E k \in DOMAIN limiters : limiters[k] = a

(***************************************************************************)
(* C24.  Idle counters do not stay in the map: a request that reaches the  *)
(* registry more than the cleanup interval after the last sweep starts a   *)
(* sweep, and once a request has started one, every counter that is idle   *)
(* then is removed from the map in the end, unless it records a request    *)
(* first.                                                                  *)
(***************************************************************************)
C24_IdleEventuallyRemoved ==
    /\ [](DOMAIN heap \subseteq Addrs)
    /\ [][\A p \in Procs :
            (/\ pc[p] = "idle"
             /\ pc'[p] \in {"cleanup_now", "rlock"}
             /\ clock - lastCleanup > CleanupInterval) => pc'[p] = "cleanup_now"]_vars
    /\ \A a \in Addrs :
         ((\E p \in Procs : pc[p] = "cleanup_now") /\ Registered(a) /\ IdleAt(a, clock))
         ~> (~Registered(a) \/ ~IdleAt(a, clock))

\* a sweep is under way and has removed the counter of a client that was
\* admitted more than twice the window ago
C24_Witness ==
    \E p, q \in Procs :
        /\ pc[p] = "cleanup_range" /\ storeMu.writer = p
        /\ pc[q] = "done" /\ result[q].allowed
        /\ now[p] - (result[q].resetTime - StoreWindow) > StoreWindow * 2
        /\ clientIP[q] \notin DOMAIN limiters
        /\ clientIP[q] \notin ranging

====
